---- MODULE Spec2Model ----
(***************************************************************************)
(* WeakRef bridge of the runtime (src/runtime/src/main/jni/WeakRef.cpp).   *)
(*                                                                         *)
(* One weak-reference instance is a holder object with a hidden slot, two  *)
(* Persistent handles (poTarget, poHolder) and one CallbackState shared by *)
(* the two weak callbacks.  The script calls the constructor, get and      *)
(* clear; the collector calls WeakTargetCallback and WeakHolderCallback.   *)
(***************************************************************************)
EXTENDS Integers, Sequences, FiniteSets, TLC

\* ------------------------------------------------------------------ bounds
MaxInst == 2
MaxObj == 2
MaxArgs == 2

\* ------------------------------------------------------------------ values
\* nullptr, as stored in CallbackState fields, the hidden slot and the caches.
NULL == 0
\* The script value null that get() returns for an absent slot.
NullV == 0
\* A script value that is not an object (the 5 of new WeakRef(5)).
Prim == -1
\* No value was returned (clear() returns nothing; a failed call throws).
Undefined == -2

Insts == 1 .. MaxInst
\* Script objects that can be passed as a target.
Objs == 1 .. MaxObj
\* m_objectManager->GetEmptyObject: the fresh holder object of instance i.
GetEmptyObject(i) == MaxObj + i
Holders == {GetEmptyObject(i) : i \in Insts}
ArgValues == Objs \cup {Prim}
\* Mutant: every value passes the object test.
IsObject_Any(v) == TRUE
\* target->IsObject()
IsObject(v) == v \in Objs \cup Holders

\* Mutant: every instance uses the first instance's target handle.
PoTarget_Shared(i) == 1
\* new Persistent<Object>(isolate, targetObj) / (isolate, weakRef): fresh addresses.
PoTarget(i) == 2 * i - 1
PoHolder(i) == 2 * i
Ptrs == {PoTarget(i) : i \in Insts} \cup {PoHolder(i) : i \in Insts}

\* The three constructor messages and the two generic ones of the catch clauses.
MsgInvocation == "WeakRef must be used as a construct call."
MsgCount == "The WeakRef constructor expects single parameter."
MsgType == "The WeakRef constructor expects an object argument."
MsgStd == "Error: c++ exception: std::exception"
MsgUnknown == "Error: c++ exception!"
NoExc == ""
\* No delivery of the two-run comparison is under way.
Sync == "sync"
\* No constructor call has been recorded.
NoCall == [isConstructCall |-> FALSE, args |-> <<Undefined>>]

VARIABLES
    n,              \* number of instances constructed so far
    callbackState,  \* instance -> [target, holder]: the CallbackState's two fields
    deleted,        \* instance -> how many times `delete callbackState` ran
    hidden,         \* instance -> the holder's hidden value (a Persistent* or NULL)
    props,          \* instance -> [get, clear]: the holder's two function properties
    arg,            \* instance -> the object the constructor was called with
    live,           \* Persistent handles allocated and not yet deleted
    weak,           \* Persistent handles with a weak callback registered
    referent,       \* Persistent handle -> the object it refers to (NullV after Reset)
    reach,          \* objects (targets and holders) strongly reachable from script
    m_poGetterFunc, \* the controller's cached get function (NULL until built)
    m_poClearFunc,  \* the controller's cached clear function (NULL until built)
    nfun,           \* number of function objects built so far
    last,           \* the last entry point run: [op, inst, val, exc, note]
    cleared,        \* history: instances on which clear() has run
    uaf,            \* a freed CallbackState or a deleted handle was used
    escaped,        \* a native fault left an entry point uncaught
    turn,           \* lockstep position of the two-run comparison (Sync outside it)
    call            \* the recorded arguments of the last constructor call, if recorded

mvars == <<n, callbackState, deleted, hidden, props, arg, live, weak, referent,
           reach, m_poGetterFunc, m_poClearFunc, nfun, last, cleared,
           uaf, escaped>>
vars == <<n, callbackState, deleted, hidden, props, arg, live, weak, referent,
          reach, m_poGetterFunc, m_poClearFunc, nfun, last, cleared,
          uaf, escaped, turn, call>>
\* The bookkeeping of the comparisons, which no entry point reads or writes.
aux == <<turn, call>>

Result(op, i, val, exc, note) ==
    [op |-> op, inst |-> i, val |-> val, exc |-> exc, note |-> note]

Init ==
    /\ n = 0
    /\ callbackState = [i \in Insts |-> [target |-> NULL, holder |-> NULL]]
    /\ deleted = [i \in Insts |-> 0]
    /\ hidden = [i \in Insts |-> NULL]
    /\ props = [i \in Insts |-> [get |-> NULL, clear |-> NULL]]
    /\ arg = [i \in Insts |-> NullV]
    /\ live = {}
    /\ weak = {}
    /\ referent = [p \in Ptrs |-> NullV]
    /\ reach = Objs
    /\ m_poGetterFunc = NULL
    /\ m_poClearFunc = NULL
    /\ nfun = 0
    /\ last = Result("init", 0, Undefined, NoExc, "")
    /\ cleared = {}
    /\ uaf = FALSE
    /\ escaped = FALSE
    /\ turn = Sync
    /\ call = NoCall

\* The process is running: no fault has left an entry point and no freed memory was used.
Running == ~uaf /\ ~escaped

\* Targets the collector has started to finalize: a target callback has run for them.
Dead == {arg[i] : i \in {j \in 1 .. n : PoTarget(j) \notin weak}}

\* The collector runs all callbacks of a pass before script resumes: script runs only
\* when no target that is being finalized still has a registered handle.
Quiescent == \A p \in weak : referent[p] \notin Dead

\* --------------------------------------------------------------- constructor
\* Mutant: the arity check accepts every non-empty argument list.
ArityOk_AtLeastOne(args) == Len(args) >= 1
\* args.Length() == 1
ArityOk(args) == Len(args) = 1

\* Mutant: the arity and type checks run before the invocation check.
CtorCheck_ArgsFirst(isConstructCall, args) ==
    IF ArityOk(args)
    THEN IF IsObject(args[1])
         THEN IF isConstructCall THEN NoExc ELSE MsgInvocation
         ELSE MsgType
    ELSE MsgCount
\* The nested checks of ConstructorCallbackImpl: the message thrown, or NoExc.
CtorCheck(isConstructCall, args) ==
    IF isConstructCall
    THEN IF ArityOk(args)
         THEN IF IsObject(args[1]) THEN NoExc ELSE MsgType
         ELSE MsgCount
    ELSE MsgInvocation

\* Mutant: GetGetterFunction builds a new function on every request.
GetGetterFunction_Rebuilds == nfun + 1
\* The function GetGetterFunction returns, and the cache after it.
GetGetterFunction == IF m_poGetterFunc # NULL THEN m_poGetterFunc ELSE nfun + 1
GetterBuilt == IF m_poGetterFunc # NULL THEN 0 ELSE 1
\* The function GetClearFunction returns when called after GetGetterFunction.
GetClearFunction ==
    IF m_poClearFunc # NULL THEN m_poClearFunc ELSE nfun + GetterBuilt + 1
ClearBuilt == IF m_poClearFunc # NULL THEN 0 ELSE 1

\* Mutant: the constructor leaves the hidden slot absent.
CtorHiddenValue_Absent(i) == NULL
\* Mutant: the constructor stores the holder's handle in the hidden slot.
CtorHiddenValue_Holder(i) == PoHolder(i)
\* weakRef->SetHiddenValue(GetTarget(), External::New(isolate, poTarget))
CtorHiddenValue(i) == PoTarget(i)

\* ConstructorCallback with ConstructorCallbackImpl inlined: a NativeScriptException
\* thrown by the checks is caught and rethrown to the script with its message.
ConstructorCallback(isConstructCall, args) ==
    LET msg == CtorCheck(isConstructCall, args)
        i == n + 1
    IN  IF msg # NoExc
        THEN /\ last' = Result("new", 0, Undefined, msg, "")
             /\ UNCHANGED <<n, callbackState, deleted, hidden, props, arg, live, weak,
                            referent, reach, m_poGetterFunc, m_poClearFunc,
                            nfun, cleared, uaf, escaped>>
        ELSE /\ n < MaxInst
             /\ n' = i
             /\ live' = live \cup {PoTarget(i), PoHolder(i)}
             /\ referent' = [referent EXCEPT ![PoTarget(i)] = args[1],
                                             ![PoHolder(i)] = GetEmptyObject(i)]
             /\ callbackState' = [callbackState EXCEPT
                                    ![i] = [target |-> PoTarget(i), holder |-> PoHolder(i)]]
             /\ weak' = weak \cup {PoTarget(i), PoHolder(i)}
             /\ props' = [props EXCEPT
                            ![i] = [get |-> GetGetterFunction, clear |-> GetClearFunction]]
             /\ m_poGetterFunc' = GetGetterFunction
             /\ m_poClearFunc' = GetClearFunction
             /\ nfun' = nfun + GetterBuilt + ClearBuilt
             /\ hidden' = [hidden EXCEPT ![i] = CtorHiddenValue(i)]
             /\ arg' = [arg EXCEPT ![i] = args[1]]
             /\ reach' = reach \cup {GetEmptyObject(i)}
             /\ last' = Result("new", i, GetEmptyObject(i), NoExc, "")
             /\ UNCHANGED <<deleted, cleared, uaf, escaped>>

\* Mutant: the target callback rewrites the hidden value only when the holder is gone.
TargetClearsSlot_Inverted(c) == c.holder = NULL
\* ------------------------------------------------------------ weak callbacks
\* Mutant: the target callback leaves the holder's hidden value alone.
TargetClearsSlot_Never(c) == FALSE
\* if (poHolder != nullptr): the target callback rewrites the holder's hidden value.
TargetClearsSlot(c) == c.holder # NULL
\* Mutant: the target callback never deletes the CallbackState.
TargetDeletesState_Never(c) == FALSE
\* Mutant: the target callback deletes the CallbackState whatever the holder field is.
TargetDeletesState_Always(c) == TRUE
\* if (callbackState->holder == nullptr) delete callbackState;
TargetDeletesState(c) == c.holder = NULL

\* WeakTargetCallback(data) with data.GetParameter() the CallbackState of instance i.
WeakTargetCallback(i) ==
    LET c == callbackState[i]
        poTarget == c.target
        c1 == [c EXCEPT !.target = NULL]
    IN  IF \/ deleted[i] > 0
           \/ poTarget \notin live
           \/ TargetClearsSlot(c1) /\ c1.holder \notin live
        THEN /\ uaf' = TRUE
             /\ last' = Result("targetFinalize", i, Undefined, NoExc, "undefined")
             /\ UNCHANGED <<n, callbackState, deleted, hidden, props, arg, live, weak,
                            referent, reach, m_poGetterFunc, m_poClearFunc,
                            nfun, cleared, escaped>>
        ELSE /\ referent' = [referent EXCEPT ![poTarget] = NullV]
             /\ weak' = weak \ {poTarget}
             /\ live' = live \ {poTarget}
             /\ callbackState' = [callbackState EXCEPT ![i] = c1]
             /\ hidden' = IF TargetClearsSlot(c1)
                          THEN [hidden EXCEPT ![i] = NULL]
                          ELSE hidden
             /\ deleted' = IF TargetDeletesState(c1)
                           THEN [deleted EXCEPT ![i] = @ + 1]
                           ELSE deleted
             /\ last' = Result("targetFinalize", i, Undefined, NoExc,
                               IF TargetDeletesState(c1) THEN "freed" ELSE "kept")
             /\ UNCHANGED <<n, props, arg, reach, m_poGetterFunc,
                            m_poClearFunc, nfun, cleared, uaf, escaped>>

\* Mutant: the holder callback never registers itself again.
HolderRearms_Never(poTarget) == FALSE
\* Mutant: the holder callback tests the hidden value the wrong way round.
HolderRearms_Inverted(poTarget) == poTarget = NULL
\* if (poTarget != nullptr) poHolder->SetWeak(callbackState, WeakHolderCallback);
HolderRearms(poTarget) == poTarget # NULL
\* Mutant: the holder callback deletes the CallbackState while the target field is set.
HolderDeletesState_Inverted(c) == c.target # NULL
\* Mutant: the holder callback deletes the CallbackState whatever the target field is.
HolderDeletesState_Always(c) == TRUE
\* Mutant: the holder callback never deletes the CallbackState.
HolderDeletesState_Never(c) == FALSE
\* if (callbackState->target == nullptr) delete callbackState;
HolderDeletesState(c) == c.target = NULL

\* WeakHolderCallback(data) with data.GetParameter() the CallbackState of instance i.
\* The collector's invocation consumes the registration; SetWeak registers it again.
WeakHolderCallback(i) ==
    LET c == callbackState[i]
        poHolder == c.holder
        poTarget == hidden[i]
        c1 == [c EXCEPT !.holder = NULL]
    IN  IF deleted[i] > 0 \/ poHolder \notin live
        THEN /\ uaf' = TRUE
             /\ last' = Result("holderFinalize", i, Undefined, NoExc, "undefined")
             /\ UNCHANGED <<n, callbackState, deleted, hidden, props, arg, live, weak,
                            referent, reach, m_poGetterFunc, m_poClearFunc,
                            nfun, cleared, escaped>>
        ELSE IF HolderRearms(poTarget)
        THEN /\ weak' = (weak \ {poHolder}) \cup {poHolder}
             /\ last' = Result("holderFinalize", i, Undefined, NoExc, "rearmed")
             /\ UNCHANGED <<n, callbackState, deleted, hidden, props, arg, live,
                            referent, reach, m_poGetterFunc, m_poClearFunc,
                            nfun, cleared, uaf, escaped>>
        ELSE /\ referent' = [referent EXCEPT ![poHolder] = NullV]
             /\ weak' = weak \ {poHolder}
             /\ live' = live \ {poHolder}
             /\ callbackState' = [callbackState EXCEPT ![i] = c1]
             /\ deleted' = IF HolderDeletesState(c1)
                           THEN [deleted EXCEPT ![i] = @ + 1]
                           ELSE deleted
             /\ last' = Result("holderFinalize", i, Undefined, NoExc,
                               IF HolderDeletesState(c1) THEN "freed" ELSE "released")
             /\ UNCHANGED <<n, hidden, props, arg, reach, m_poGetterFunc,
                            m_poClearFunc, nfun, cleared, uaf, escaped>>

\* ------------------------------------------------------------------ accessors
\* Mutant: clear() writes back the value the slot already holds.
ClearHiddenValue_Keep(i) == hidden[i]
\* holder->SetHiddenValue(GetTarget(), External::New(isolate, nullptr))
ClearHiddenValue(i) == NULL

\* Mutant: clear() also cancels the target handle's callback registration.
ClearCallback_Unregisters(i) ==
    /\ hidden' = [hidden EXCEPT ![i] = ClearHiddenValue(i)]
    /\ weak' = weak \ {callbackState[i].target}
    /\ cleared' = cleared \cup {i}
    /\ last' = Result("clear", i, Undefined, NoExc, "")
    /\ UNCHANGED <<n, callbackState, deleted, props, arg, live, referent,
                   reach, m_poGetterFunc, m_poClearFunc, nfun, uaf, escaped>>
\* ClearCallback with args.This() the holder of instance i.
ClearCallback(i) ==
    /\ hidden' = [hidden EXCEPT ![i] = ClearHiddenValue(i)]
    /\ cleared' = cleared \cup {i}
    /\ last' = Result("clear", i, Undefined, NoExc, "")
    /\ UNCHANGED <<n, callbackState, deleted, props, arg, live, weak, referent,
                   reach, m_poGetterFunc, m_poClearFunc, nfun, uaf, escaped>>

\* Mutant: get() reads the target handle of the instance whatever the slot holds.
GetterValue_IgnoresSlot(i) == referent[PoTarget(i)]
\* The value GettertCallback returns for the holder of instance i.
GetterValue(i) ==
    IF hidden[i] # NULL THEN referent[hidden[i]] ELSE NullV

\* GettertCallback with args.This() the holder of instance i; keep: the script stores
\* the returned object in a strong reference.
GettertCallback(i, keep) ==
    IF hidden[i] # NULL /\ hidden[i] \notin live
    THEN /\ uaf' = TRUE
         /\ last' = Result("get", i, Undefined, NoExc, "undefined")
         /\ UNCHANGED <<n, callbackState, deleted, hidden, props, arg, live, weak,
                        referent, reach, m_poGetterFunc, m_poClearFunc,
                        nfun, cleared, escaped>>
    ELSE /\ last' = Result("get", i, GetterValue(i), NoExc, "")
         /\ reach' = IF keep /\ GetterValue(i) # NullV
                     THEN reach \cup {GetterValue(i)}
                     ELSE reach
         /\ UNCHANGED <<n, callbackState, deleted, hidden, props, arg, live, weak,
                        referent, m_poGetterFunc, m_poClearFunc, nfun,
                        cleared, uaf, escaped>>

\* ------------------------------------------------- script and collector steps
\* All argument lists of length 0 .. MaxArgs.
ArgLists == UNION {[1 .. k -> ArgValues] : k \in 0 .. MaxArgs}

\* The objects some instance observes or has observed.
Observed == {arg[j] : j \in 1 .. n}

\* Script objects are interchangeable: the script names them in the order in which it
\* first passes them to the constructor, so an argument is an observed object or the
\* next unobserved one.
Nameable == Observed \cup {Cardinality(Observed) + 1}

\* The argument lists the script can pass: every object in them is one it holds.
Passable == LET ok == reach \cap Nameable
            IN  {args \in ArgLists : \A k \in 1 .. Len(args) : args[k] \in Objs => args[k] \in ok}

\* The script evaluates WeakRef(...) or new WeakRef(...) with values it holds.
Construct ==
    /\ Running /\ Quiescent
    /\ \E isConstructCall \in BOOLEAN, args \in Passable :
          ConstructorCallback(isConstructCall, args)
    /\ UNCHANGED aux

\* The script holds the holder of instance i.
Held(i) == i \in 1 .. n /\ GetEmptyObject(i) \in reach

\* The script calls r.get() on a holder it holds.
Get ==
    /\ Running /\ Quiescent
    /\ \E i \in Insts, keep \in BOOLEAN : Held(i) /\ GettertCallback(i, keep)
    /\ UNCHANGED aux

\* The script calls r.clear() on a holder it holds.
Clear ==
    /\ Running /\ Quiescent
    /\ \E i \in Insts : Held(i) /\ ClearCallback(i)
    /\ UNCHANGED aux

\* The script drops its last strong reference to an observed object or to a holder.
DropRef ==
    /\ Running /\ Quiescent
    /\ \E v \in reach :
          /\ v \in Objs => v \in Observed
          /\ reach' = reach \ {v}
    /\ UNCHANGED <<n, callbackState, deleted, hidden, props, arg, live, weak, referent,
                   m_poGetterFunc, m_poClearFunc, nfun, last, cleared, uaf,
                   escaped, turn, call>>

\* The collector may invoke the callback of a registered handle whose object is
\* not strongly reachable.
Collectable(p) == p \in weak /\ referent[p] \notin reach

\* The collector runs the target callback of instance i in this step.
TargetFires(i) ==
    /\ Running /\ i \in 1 .. n /\ Collectable(PoTarget(i))
    /\ WeakTargetCallback(i)

\* The collector runs the holder callback of instance i in this step.
HolderFires(i) ==
    /\ Running /\ i \in 1 .. n /\ Collectable(PoHolder(i))
    /\ WeakHolderCallback(i)

\* The collector invokes the target callback of an instance.
TargetFinalize == \E i \in Insts : TargetFires(i) /\ UNCHANGED aux

\* The collector invokes the holder callback of an instance.
HolderFinalize == \E i \in Insts : HolderFires(i) /\ UNCHANGED aux

Next ==
    \/ Construct
    \/ Get
    \/ Clear
    \/ DropRef
    \/ TargetFinalize
    \/ HolderFinalize

Spec == Init /\ [][Next]_vars

\* ------------------------------------------- constructor calls with recorded input
\* Construct, with the call's arguments recorded for the argument-check properties.
ConstructRecorded ==
    /\ Running /\ Quiescent
    /\ \E isConstructCall \in BOOLEAN, args \in Passable :
          /\ ConstructorCallback(isConstructCall, args)
          /\ call' = [isConstructCall |-> isConstructCall, args |-> args]
    /\ UNCHANGED turn

NextCtor ==
    \/ ConstructRecorded
    \/ DropRef

SpecCtor == Init /\ [][NextCtor]_vars

\* ------------------------------------------------ native faults at the entry points
\* The kinds of C++ exception the catch clauses tell apart.
Faults == {"NativeScriptException", "std::exception", "other"}
\* The message of a NativeScriptException raised by a collaborator.
MsgNative == "native"

\* The catch clauses every guarded entry point ends with: the message rethrown to script.
CatchMsg(f) ==
    IF f = "NativeScriptException" THEN MsgNative
    ELSE IF f = "std::exception" THEN MsgStd
    ELSE MsgUnknown

\* A fault raised in an entry point before its first write: with a try block it is
\* rethrown to the script as an exception, without one it leaves the entry point.
Faulted(op, i, f, hasTry) ==
    /\ last' = Result(op, i, Undefined, IF hasTry THEN CatchMsg(f) ELSE NoExc, "fault")
    /\ escaped' = ~hasTry
    /\ UNCHANGED <<n, callbackState, deleted, hidden, props, arg, live, weak, referent,
                   reach, m_poGetterFunc, m_poClearFunc, nfun, cleared, uaf, aux>>

\* try { thiz->ConstructorCallbackImpl(args); } catch ...
ConstructorCallbackFault ==
    /\ Running /\ Quiescent
    /\ \E f \in Faults : Faulted("new", 0, f, TRUE)

\* try { ... GetHiddenValue ... } catch ...
GettertCallbackFault ==
    /\ Running /\ Quiescent
    /\ \E i \in Insts, f \in Faults : Held(i) /\ Faulted("get", i, f, TRUE)

\* try { ... SetHiddenValue ... } catch ...
ClearCallbackFault ==
    /\ Running /\ Quiescent
    /\ \E i \in Insts, f \in Faults : Held(i) /\ Faulted("clear", i, f, TRUE)

\* try { ... } catch ... around the whole body of WeakHolderCallback
WeakHolderCallbackFault ==
    /\ Running
    /\ \E i \in Insts, f \in Faults :
          /\ i \in 1 .. n /\ Collectable(PoHolder(i))
          /\ Faulted("holderFinalize", i, f, TRUE)

\* WeakTargetCallback has no try block.
WeakTargetCallbackFault ==
    /\ Running
    /\ \E i \in Insts, f \in Faults :
          /\ i \in 1 .. n /\ Collectable(PoTarget(i))
          /\ Faulted("targetFinalize", i, f, FALSE)

NextFault ==
    \/ Construct
    \/ Get
    \/ Clear
    \/ DropRef
    \/ TargetFinalize
    \/ HolderFinalize
    \/ ConstructorCallbackFault
    \/ GettertCallbackFault
    \/ ClearCallbackFault
    \/ WeakHolderCallbackFault
    \/ WeakTargetCallbackFault

SpecFault == Init /\ [][NextFault]_vars

\* ------------------------------------------------------------- a fair collector
\* Every callback of a registered handle whose object stays unreachable is
\* eventually invoked.
Fairness ==
    \A i \in Insts :
        /\ WF_vars(TargetFires(i) /\ UNCHANGED aux)
        /\ WF_vars(HolderFires(i) /\ UNCHANGED aux)

FairSpec == Init /\ [][Next]_vars /\ Fairness

\* ------------------------------------- two runs under one schedule of callbacks
\* Run A is instance RunA and never calls clear(); run B is instance RunB and may.
\* Each run has its own target and its own script, which calls get() and drops
\* references as it likes; the collector delivers every callback to both runs, one
\* after the other (turn tells which half of a delivery is pending).
RunA == 1
RunB == 2
TargetPending == "target"
HolderPending == "holder"
\* The target object of a run's instance.
TargetOf(run) == run
\* Both runs have constructed their instance and no delivery is under way.
BothRunning == turn = Sync /\ n = RunB

\* Both runs construct their instance, each with its own target.
PairConstruct ==
    /\ Running /\ turn = Sync
    /\ \E run \in {RunA, RunB} :
          n = run - 1 /\ ConstructorCallback(TRUE, <<TargetOf(run)>>)
    /\ UNCHANGED aux

\* The script of either run calls get().
PairGet == BothRunning /\ Get

\* The script of run B calls clear().
PairClear ==
    /\ BothRunning /\ Running /\ Quiescent
    /\ Held(RunB) /\ ClearCallback(RunB)
    /\ UNCHANGED aux

\* The script of either run drops a reference.
PairDrop == BothRunning /\ DropRef

\* The collector delivers the target callback: to run A, then to run B.
PairTargetFinalize ==
    \/ /\ BothRunning /\ Collectable(PoTarget(RunB))
       /\ TargetFires(RunA)
       /\ turn' = TargetPending /\ UNCHANGED call
    \/ /\ turn = TargetPending
       /\ TargetFires(RunB)
       /\ turn' = Sync /\ UNCHANGED call

\* The collector delivers the holder callback: to run A, then to run B if its holder
\* handle is still registered (a released handle has no callback left to run).
PairHolderFinalize ==
    \/ /\ BothRunning /\ (Collectable(PoHolder(RunB)) \/ PoHolder(RunB) \notin weak)
       /\ HolderFires(RunA)
       /\ turn' = HolderPending /\ UNCHANGED call
    \/ /\ turn = HolderPending
       /\ HolderFires(RunB)
       /\ turn' = Sync /\ UNCHANGED call
    \/ /\ turn = HolderPending
       /\ PoHolder(RunB) \notin weak
       /\ turn' = Sync /\ UNCHANGED mvars /\ UNCHANGED call

NextPair ==
    \/ PairConstruct
    \/ PairGet
    \/ PairClear
    \/ PairDrop
    \/ PairTargetFinalize
    \/ PairHolderFinalize

SpecPair == Init /\ [][NextPair]_vars

\* ---------------------------------------------------------------- properties
\* The instances constructed so far.
Made == 1 .. n
\* The state machine of section 4.3, read off the CallbackState's two fields.
TargetRegistered(i) == callbackState[i].target # NULL
HolderRegistered(i) == callbackState[i].holder # NULL
Freed(i) == deleted[i] > 0
Active(i) == TargetRegistered(i) /\ HolderRegistered(i)

\* C1: in every reachable state a CallbackState has been freed if and only if both
\* its target_handle and its holder_handle are None, so it is freed in exactly the
\* step in which the second of the two fields becomes None.
C1_FreedIffBothNone ==
    \A i \in Made : Freed(i) <=> (~TargetRegistered(i) /\ ~HolderRegistered(i))

\* C1 witness: the target callback ran last (the holder handle was released first,
\* after a clear()) and freed the CallbackState.
C1_Witness ==
    /\ last.op = "targetFinalize" /\ last.note = "freed"
    /\ Freed(last.inst) /\ last.inst \in cleared

\* C2: no CallbackState is deleted twice, no callback or accessor ever uses freed
\* memory, and a CallbackState is not freed while one of its handles is registered;
\* after a target-finalize with the holder still registered it is still allocated.
C2_NoDoubleFreeNoUseAfterFree ==
    /\ ~uaf
    /\ \A i \in Made :
         /\ deleted[i] <= 1
         /\ (PoTarget(i) \in weak \/ PoHolder(i) \in weak) => ~Freed(i)
         /\ (~TargetRegistered(i) /\ HolderRegistered(i)) => ~Freed(i)

\* C2 witness: target-finalize ran while the holder was registered (no clear()), and
\* the later holder-finalize released the CallbackState, once.
C2_Witness ==
    /\ last.op = "holderFinalize" /\ last.note = "freed"
    /\ last.inst \notin cleared /\ deleted[last.inst] = 1

\* The holder callback of instance i registered itself again and changed nothing else.
Rearmed(i) ==
    /\ PoHolder(i) \in weak' /\ PoHolder(i) \in live'
    /\ callbackState'[i] = callbackState[i] /\ HolderRegistered(i)
    /\ deleted'[i] = 0

\* C3 as stated: whenever holder-finalize fires while the target handle is registered
\* and the target is alive, the callback re-arms and neither releases the holder
\* handle nor frees the CallbackState, also after a clear().
C3_Original ==
    [][\A i \in Insts :
         (HolderFires(i) /\ TargetRegistered(i) /\ arg[i] \in reach) => Rearmed(i)]_vars

\* C3 amended: whenever holder-finalize fires while the target handle is registered
\* and clear() has not been called on the holder, the callback re-arms and neither
\* releases the holder handle nor frees the CallbackState; after a clear() it releases
\* the holder handle, and still does not free the CallbackState while the target
\* handle is registered.
C3_RearmsUnlessCleared ==
    [][\A i \in Insts :
         (HolderFires(i) /\ TargetRegistered(i)) =>
             /\ i \notin cleared => Rearmed(i)
             /\ i \in cleared => (~HolderRegistered(i))' /\ PoHolder(i) \notin weak'
             /\ deleted'[i] = 0]_vars

\* C3 witness: the holder callback has just re-armed while the target is registered
\* and strongly reachable.
C3_Witness ==
    /\ last.op = "holderFinalize" /\ last.note = "rearmed"
    /\ TargetRegistered(last.inst) /\ arg[last.inst] \in reach
    /\ PoHolder(last.inst) \in weak

\* C4 as stated: under one schedule of finalize callbacks the run with clear() calls
\* and the run without have the same target_handle, holder_handle and freed flag
\* after each callback.
C4_Original ==
    BothRunning =>
        /\ TargetRegistered(RunA) <=> TargetRegistered(RunB)
        /\ HolderRegistered(RunA) <=> HolderRegistered(RunB)
        /\ Freed(RunA) <=> Freed(RunB)

\* C4 amended: under one schedule of finalize callbacks target_handle is the same in
\* both runs; holder_handle and the freed flag are the same until clear() is called,
\* and after a clear() the run with clear() is never behind: its holder handle is
\* released and its CallbackState freed whenever they are in the run without.
C4_ClearNeverDelays ==
    BothRunning =>
        /\ TargetRegistered(RunA) <=> TargetRegistered(RunB)
        /\ ~HolderRegistered(RunA) => ~HolderRegistered(RunB)
        /\ Freed(RunA) => Freed(RunB)
        /\ RunB \notin cleared =>
              /\ HolderRegistered(RunA) <=> HolderRegistered(RunB)
              /\ Freed(RunA) <=> Freed(RunB)

\* C4 witness: after a clear() in run B one delivery of the holder callback released
\* B's holder handle and re-armed A's, both targets still registered.
C4_Witness ==
    /\ BothRunning /\ RunB \in cleared
    /\ last.op = "holderFinalize" /\ last.inst = RunB /\ last.note = "released"
    /\ HolderRegistered(RunA) /\ ~HolderRegistered(RunB)
    /\ TargetRegistered(RunA) /\ TargetRegistered(RunB)

\* C5: under a fair collector, an instance whose target and holder both become
\* unreachable for good has its CallbackState eventually freed.
C5_EventuallyFreed ==
    \A i \in Insts :
        <>[](i \in Made /\ arg[i] \notin reach /\ GetEmptyObject(i) \notin reach)
            => <>Freed(i)

\* C5 witness: a CallbackState was freed by the holder callback after clear() had
\* been called and the target callback had run, target and holder unreachable.
C5_Witness ==
    /\ last.op = "holderFinalize" /\ last.note = "freed" /\ last.inst \in cleared
    /\ Freed(last.inst)
    /\ arg[last.inst] \notin reach /\ GetEmptyObject(last.inst) \notin reach

\* C6: once clear() has run on a holder its hidden slot is absent in every later
\* state, and every later get() on it returns null.
C6_ClearedStaysNull ==
    \A i \in cleared :
        /\ hidden[i] = NULL
        /\ (last.op = "get" /\ last.inst = i) => last.val = NullV

\* C6 witness: get() returned null on a cleared holder whose target is still
\* strongly reachable and whose target handle is still registered.
C6_Witness ==
    /\ last.op = "get" /\ last.inst \in cleared /\ last.val = NullV
    /\ arg[last.inst] \in reach /\ TargetRegistered(last.inst)

\* C7: after the target callback of an instance has run while its holder handle is
\* registered, the hidden slot is absent and every get() on the holder returns null.
C7_GoneTargetReadsNull ==
    \A i \in Made :
        (~TargetRegistered(i) /\ HolderRegistered(i)) =>
            /\ hidden[i] = NULL
            /\ (last.op = "get" /\ last.inst = i) => (last.val = NullV /\ last.note = "")

\* C7 witness: get() returned null on a holder that was never cleared, after the
\* collector finalized its target.
C7_Witness ==
    /\ last.op = "get" /\ last.val = NullV
    /\ last.inst \notin cleared /\ ~TargetRegistered(last.inst) /\ Held(last.inst)

\* No clear() and no target callback has acted on instance i.
Untouched(i) == i \notin cleared /\ PoTarget(i) \in weak

\* C8: a successful construct call with object x returns a fresh holder and leaves
\* the instance Active with the target's handle in the hidden slot, and a get()
\* before any clear() or finalize callback returns exactly x.
C8_ConstructThenGet ==
    /\ (last.op = "new" /\ last.exc = NoExc) =>
          /\ last.inst = n /\ last.val = GetEmptyObject(n)
          /\ \A j \in 1 .. n - 1 : referent[PoHolder(j)] # last.val
          /\ Active(n) /\ ~Freed(n)
          /\ {callbackState[n].target, callbackState[n].holder} \subseteq weak
          /\ hidden[n] = callbackState[n].target
          /\ arg[n] \in Objs /\ GetterValue(n) = arg[n]
    /\ (last.op = "get" /\ Untouched(last.inst)) => last.val = arg[last.inst]

\* C8 witness: a get() on an untouched instance returned the constructor's argument,
\* the second object.
C8_Witness ==
    /\ last.op = "get" /\ Untouched(last.inst)
    /\ last.val = arg[last.inst] /\ last.val = MaxObj

\* C9: every entry point is a fault boundary: a native fault raised in the
\* constructor, get, clear, the target-finalize handler or the holder-finalize
\* handler is rethrown to the script as an exception, and none escapes.
C9_EveryEntryPointCatches ==
    /\ ~escaped
    /\ last.note = "fault" => last.exc \in {MsgNative, MsgStd, MsgUnknown}

\* C10: a constructing call with an argument count other than 1 fails with
\* "The WeakRef constructor expects single parameter." whatever the arguments are,
\* and one with exactly one non-object argument fails with "The WeakRef constructor
\* expects an object argument."; neither returns a holder.
C10_ArityThenType ==
    (call # NoCall /\ call.isConstructCall) =>
        /\ Len(call.args) # 1 =>
              last = Result("new", 0, Undefined, MsgCount, "")
        /\ (Len(call.args) = 1 /\ call.args[1] \notin Objs) =>
              last = Result("new", 0, Undefined, MsgType, "")

\* C10 witness: new WeakRef(5, 5), two non-objects, failed with the arity message.
C10_Witness ==
    /\ call = [isConstructCall |-> TRUE, args |-> <<Prim, Prim>>]
    /\ last.exc = MsgCount

\* C11: a plain call of the constructor function (without new) fails with
\* "WeakRef must be used as a construct call." for every argument list, also one of
\* the wrong length or with a non-object argument, and returns no holder: the
\* invocation check comes before the arity and type checks.
C11_PlainCallFails ==
    (call # NoCall /\ ~call.isConstructCall) =>
        last = Result("new", 0, Undefined, MsgInvocation, "")

\* C11 witness: WeakRef(5, 5), a plain call with two non-objects, failed with the
\* invocation message.
C11_Witness ==
    /\ call = [isConstructCall |-> FALSE, args |-> <<Prim, Prim>>]
    /\ last.exc = MsgInvocation

\* The recorded call passes the three checks of the constructor.
ValidCall(c) == c.isConstructCall /\ Len(c.args) = 1 /\ c.args[1] \in Objs

\* C12: a constructor call that fails the invocation, arity or type check throws one
\* of the three messages and changes nothing else: no holder, handle or CallbackState
\* is allocated, no callback is registered, the function cache and every existing
\* instance are as before. (A step that drops no reference is a constructor call.)
C12_FailedCallChangesNothing ==
    [][(call' # NoCall /\ ~ValidCall(call') /\ reach \subseteq reach') =>
          /\ last'.exc \in {MsgInvocation, MsgCount, MsgType}
          /\ last'.inst = 0 /\ last'.val = Undefined
          /\ UNCHANGED <<n, callbackState, deleted, hidden, props, arg, live, weak,
                         referent, reach, m_poGetterFunc, m_poClearFunc, nfun>>]_vars

\* C12 witness: new WeakRef(5) failed with the type message while an instance
\* exists, which is still Active with its slot set.
C12_Witness ==
    /\ call = [isConstructCall |-> TRUE, args |-> <<Prim>>]
    /\ last = Result("new", 0, Undefined, MsgType, "")
    /\ n = 1 /\ Active(1) /\ hidden[1] = PoTarget(1)
    /\ {PoTarget(1), PoHolder(1)} \subseteq weak

\* C13: a clear() step on a holder sets that holder's hidden slot to absent and
\* changes nothing else: the two fields of the CallbackState, the handles and their
\* callback registrations and the freed status are as before, in every state in
\* which the script can call clear().
C13_ClearChangesSlotOnly ==
    [][\A i \in Insts :
         (last'.op = "clear" /\ last'.inst = i /\ Clear) =>
             /\ hidden' = [hidden EXCEPT ![i] = NULL]
             /\ UNCHANGED <<callbackState, deleted, live, weak, referent, n, props,
                            m_poGetterFunc, m_poClearFunc>>]_vars

\* C13 witness: clear() ran on a holder whose target the collector had already
\* finalized; the holder handle is still registered and the CallbackState allocated.
C13_Witness ==
    /\ last.op = "clear" /\ hidden[last.inst] = NULL
    /\ ~TargetRegistered(last.inst) /\ HolderRegistered(last.inst)
    /\ PoHolder(last.inst) \in weak /\ ~Freed(last.inst)

\* C14: a get() step leaves the hidden slot, both handles, their registrations and
\* the CallbackState unchanged, and a get() on a holder whose slot is absent returns
\* null; so once the slot is absent any number of consecutive get() calls return null.
C14_GetIsPure ==
    [][\A i \in Insts :
         (last'.op = "get" /\ last'.inst = i /\ Get) =>
             /\ UNCHANGED <<hidden, callbackState, deleted, live, weak, referent, n,
                            cleared>>
             /\ hidden[i] = NULL => (last'.val = NullV /\ hidden'[i] = NULL)
             /\ last'.exc = NoExc]_vars

\* C14 witness: a get() on a cleared holder returned null while the target is
\* registered and its handle still refers to the strongly reachable target.
C14_Witness ==
    /\ last.op = "get" /\ last.val = NullV /\ hidden[last.inst] = NULL
    /\ last.inst \in cleared
    /\ PoTarget(last.inst) \in weak
    /\ referent[PoTarget(last.inst)] = arg[last.inst] /\ arg[last.inst] \in reach

\* C15: the controller builds its get function and its clear function at most once
\* each and never replaces them: whatever the number and order of constructions,
\* every instance carries the controller's one get function and one clear function,
\* the first and the second function built.
C15_AccessorsBuiltOnce ==
    /\ nfun <= 2
    /\ (n = 0) <=> (m_poGetterFunc = NULL)
    /\ (n = 0) <=> (m_poClearFunc = NULL)
    /\ \A i \in Made :
         /\ props[i].get = m_poGetterFunc /\ props[i].clear = m_poClearFunc
         /\ props[i].get = props[1].get /\ props[i].clear = props[1].clear
         /\ props[i].get # props[i].clear
    /\ n > 0 => (m_poGetterFunc = 1 /\ m_poClearFunc = 2)

\* C15 witness: the second instance was constructed and carries the same two
\* functions as the first; two functions were built in all.
C15_Witness ==
    /\ n = 2 /\ last.op = "new" /\ last.inst = 2 /\ nfun = 2
    /\ props[2] = props[1] /\ props[2].get = m_poGetterFunc

\* C16: a target-finalize step releases the target handle and sets target_handle to
\* None; with holder_handle still registered it sets the holder's hidden slot to
\* absent and does not free the CallbackState (TargetGone); with holder_handle
\* already None it frees the CallbackState and writes no hidden slot.
C16_TargetFinalizeStep ==
    [][\A i \in Insts :
         TargetFires(i) =>
             /\ (~TargetRegistered(i))'
             /\ PoTarget(i) \in live /\ PoTarget(i) \notin live'
             /\ PoTarget(i) \notin weak' /\ referent'[PoTarget(i)] = NullV
             /\ callbackState'[i].holder = callbackState[i].holder
             /\ HolderRegistered(i) =>
                   /\ hidden' = [hidden EXCEPT ![i] = NULL]
                   /\ deleted' = deleted /\ ~Freed(i)'
                   /\ PoHolder(i) \in live'
             /\ ~HolderRegistered(i) =>
                   /\ hidden' = hidden
                   /\ deleted' = [deleted EXCEPT ![i] = 1]]_vars

\* C16 witness: one instance is in TargetGone after its target callback ran with
\* the holder registered, and the target callback of the other, whose holder handle
\* was released after a clear(), has just freed its CallbackState.
C16_Witness ==
    /\ last.op = "targetFinalize" /\ last.note = "freed" /\ Freed(last.inst)
    /\ \E j \in Made :
         /\ j # last.inst /\ j \notin cleared
         /\ ~TargetRegistered(j) /\ HolderRegistered(j)
         /\ hidden[j] = NULL /\ ~Freed(j)

\* C17: a holder-finalize step branches on the hidden slot alone: with a target
\* handle in the slot it registers the same callback again and leaves holder_handle,
\* target_handle, the slot and the CallbackState as they are; with an absent slot it
\* releases the holder handle, sets holder_handle to None, and frees the
\* CallbackState exactly when target_handle is already None.
C17_HolderFinalizeStep ==
    [][\A i \in Insts :
         HolderFires(i) =>
             /\ hidden' = hidden /\ PoHolder(i) \in live
             /\ callbackState'[i].target = callbackState[i].target
             /\ hidden[i] # NULL =>
                   /\ PoHolder(i) \in weak' /\ PoHolder(i) \in live'
                   /\ UNCHANGED <<callbackState, deleted, live, referent>>
                   /\ ~Freed(i)
             /\ hidden[i] = NULL =>
                   /\ (~HolderRegistered(i))'
                   /\ PoHolder(i) \notin live' /\ PoHolder(i) \notin weak'
                   /\ referent'[PoHolder(i)] = NullV
                   /\ deleted' = IF TargetRegistered(i)
                                 THEN deleted
                                 ELSE [deleted EXCEPT ![i] = 1]]_vars

\* C17 witness: the holder callback of one instance has just released the holder
\* handle on an absent slot without freeing (clear() was called, target registered),
\* while the other instance has its slot set and its holder handle registered.
C17_Witness ==
    /\ last.op = "holderFinalize" /\ last.note = "released"
    /\ hidden[last.inst] = NULL /\ TargetRegistered(last.inst)
    /\ ~HolderRegistered(last.inst) /\ ~Freed(last.inst)
    /\ \E j \in Made : j # last.inst /\ hidden[j] # NULL /\ PoHolder(j) \in weak

\* C18: in every reachable state a hidden slot that is not absent holds the target
\* handle of its own instance, that handle is not deleted, the instance's
\* CallbackState is not freed and both its fields are registered; so no get() and no
\* holder callback uses a target handle the target callback has deleted.
C18_LiveSlotIsLiveHandle ==
    /\ \A i \in Insts :
         hidden[i] # NULL =>
             /\ i \in Made /\ ~Freed(i) /\ Active(i)
             /\ hidden[i] = callbackState[i].target /\ hidden[i] = PoTarget(i)
             /\ hidden[i] \in live /\ PoHolder(i) \in live
             /\ referent[hidden[i]] = arg[i]
    /\ last.op \in {"get", "holderFinalize"} => last.note # "undefined"

\* C18 witness: get() returned the target through a slot that is not absent while
\* the target handle of the other instance has been deleted by its target callback.
C18_Witness ==
    /\ last.op = "get" /\ hidden[last.inst] # NULL /\ last.val = arg[last.inst]
    /\ \E j \in Made : ~TargetRegistered(j) /\ PoTarget(j) \notin live /\ hidden[j] = NULL

\* C19: an instance is in HolderGoneTargetLive (holder_handle None, target_handle
\* registered) only if clear() was called on its holder; on an instance that was
\* never cleared the holder handle is released only after the target handle, and its
\* CallbackState is freed by the holder callback, never by the target callback.
C19_HolderFirstOnlyAfterClear ==
    /\ \A i \in Made :
         /\ (~HolderRegistered(i) /\ TargetRegistered(i)) => i \in cleared
         /\ (i \notin cleared /\ ~HolderRegistered(i)) =>
               (~TargetRegistered(i) /\ PoTarget(i) \notin live)
         /\ (i \notin cleared /\ PoTarget(i) \in weak) => PoHolder(i) \in live
    /\ (last.note = "freed" /\ last.inst \notin cleared) => last.op = "holderFinalize"
    /\ (last.op = "targetFinalize" /\ last.inst \notin cleared) => last.note = "kept"

\* C19 witness: after a clear() the holder callback released the holder handle while
\* the target handle is registered, and on the other instance, never cleared, the
\* target callback kept the CallbackState for the holder callback to free.
C19_Witness ==
    /\ \E i \in Made :
         i \in cleared /\ ~HolderRegistered(i) /\ TargetRegistered(i) /\ ~Freed(i)
    /\ last.op = "targetFinalize" /\ last.note = "kept" /\ last.inst \notin cleared

\* Instance j is as it was: its slot, its CallbackState, its two handles, their
\* referents and registrations and its accessor functions.
SameInstance(j) ==
    /\ hidden'[j] = hidden[j] /\ callbackState'[j] = callbackState[j]
    /\ deleted'[j] = deleted[j] /\ props'[j] = props[j] /\ arg'[j] = arg[j]
    /\ \A p \in {callbackState[j].target, callbackState[j].holder} \ {NULL} :
         /\ (p \in live') = (p \in live)
         /\ (p \in weak') = (p \in weak)
         /\ referent'[p] = referent[p]

\* C20: instances are independent although they share the get and clear functions:
\* a successful construction allocates a CallbackState and two handles no other
\* instance has, and every step (construction, get(), clear(), target-finalize,
\* holder-finalize) leaves each instance other than the one it acts on as it was,
\* also when two instances observe the same target.
C20_InstancesIndependent ==
    [][/\ \A j \in Made : last'.inst # j => SameInstance(j)
       /\ n' # n =>
             /\ n' = n + 1 /\ last'.inst = n'
             /\ NULL \notin {callbackState'[n'].target, callbackState'[n'].holder}
             /\ {callbackState'[n'].target, callbackState'[n'].holder} \cap live = {}
             /\ callbackState'[n'].target # callbackState'[n'].holder
             /\ \A j \in Made :
                  {callbackState'[n'].target, callbackState'[n'].holder} \cap
                  {callbackState[j].target, callbackState[j].holder, PoTarget(j),
                   PoHolder(j)} = {}]_vars

\* C20 witness: two instances observe the same target and share both functions;
\* clear() ran on the first, and the second still has its slot and both handles.
C20_Witness ==
    /\ n = 2 /\ arg[1] = arg[2] /\ props[1] = props[2]
    /\ last.op = "clear" /\ last.inst = 1 /\ hidden[1] = NULL
    /\ hidden[2] = PoTarget(2) /\ Active(2) /\ GetterValue(2) = arg[2]

====
